---- MODULE Spec2Model ----
(***************************************************************************)
(* Model of the hytale-rag tool layer: the zod input schemas, the tool     *)
(* registry, the documentation tools, the store search helper, the         *)
(* client-UI ingestion run with its batched embedding, and main() with the *)
(* protocol adapters it starts.                                            *)
(***************************************************************************)
EXTENDS Integers, Sequences, FiniteSets, TLC

VARIABLES
    phase,      \* main(): "config", "connect", "boot" (registering), "serving" or "exit1"
    tools,      \* ToolRegistry: registered definitions, in registration order
    context,    \* ToolContext handed to every handler
    store,      \* vector store: table name -> [exists, rows]
    last,       \* outcome of the most recent registry call (register or invoke)
    prevThrew,  \* whether the invocation before the most recent one had a throwing handler
    ipc,        \* ingest-client main(): "parse", "embed", "store", "done" or "exit1"
    chunks,     \* the chunks the parser produced
    batchSize,  \* the embedding provider's batchSize option
    batch,      \* the running embedBatch call: position, vectors so far, calls, outcome
    progress,   \* the current values onProgress was called with, in call order
    clock,      \* time in ms since the ingestion run started
    embedded,   \* embeddedChunks of main()
    uiTable,    \* the hytale_client_ui table of the database
    mode,       \* config.server.mode
    connected,  \* whether vectorStore.connect() has succeeded
    adapters,   \* protocol adapter -> its lifecycle state
    concurrent, \* whether the stdio host transport supports concurrent request IDs
    inbox,      \* requests that arrived at an adapter and are not yet dispatched
    running,    \* requests dispatched to registry.invoke whose response is not yet sent
    outbox,     \* the responses sent, in sending order
    scan,       \* a full-table scan in progress: table, page size, offset, rows visited
    dbop        \* the most recent create-table call: table name, chunks, outcome

serveVars == <<phase, tools, context, store, last, prevThrew>>
ingestVars == <<ipc, chunks, batchSize, batch, progress, clock, embedded, uiTable>>
wireVars == <<mode, connected, adapters, concurrent, inbox, running, outbox>>
auxVars == <<scan, dbop>>
vars == <<serveVars, ingestVars, wireVars, auxVars>>

Min(a, b) == IF a < b THEN a ELSE b
Max(a, b) == IF a > b THEN a ELSE b

----------------------------------------------------------------------------
(* Raw JSON values as they arrive from a client. *)

Absent == [t |-> "absent", s |-> "", n |-> 0]
Str(x) == [t |-> "str", s |-> x, n |-> 0]
Num(k) == [t |-> "num", s |-> "", n |-> k]
\* a number with a fractional part: n + 1/2
Frac(k) == [t |-> "frac", s |-> "", n |-> k]

\* the largest limit a client is modelled to send
MaxRawLimit == 22

RawQueries == {Absent, Str(""), Str("q"), Num(42)}
RawLimits ==
    {Absent, Str("5"), Frac(2)} \cup {Num(k) : k \in {0, 1, 5, 20, 21, MaxRawLimit}}
RawTypes == {Absent, Str("all"), Str("guide"), Str("bogus")}

NotAnObject == [obj |-> FALSE, query |-> Absent, limit |-> Absent, type |-> Absent]
RawInputs ==
    {NotAnObject} \cup
    [obj : {TRUE}, query : RawQueries, limit : RawLimits, type : RawTypes]

----------------------------------------------------------------------------
(* Input schemas (zod). A parse yields [ok, value, error]. *)

DOCS_TYPES == {"all", "guide", "reference", "faq", "example"}
GAME_DATA_TYPES ==
    {"all", "item", "recipe", "block", "interaction", "drop", "npc", "npc_group",
     "npc_ai", "entity", "projectile", "farming", "shop", "environment", "weather",
     "biome", "worldgen", "camera", "objective", "gameplay", "localization", "zone",
     "terrain_layer", "cave", "prefab"}

LimitMin == 1
LimitMax == 20
LimitDefault == 5

ParseOk(v) == [ok |-> TRUE, value |-> v, error |-> ""]
ParseFail(msg) == [ok |-> FALSE, value |-> [query |-> "", limit |-> Absent, type |-> ""], error |-> msg]

\* z.string().min(1)
QueryField(raw) == raw.t = "str" /\ raw.s # ""

LimitFieldLoose(raw) ==
    \/ raw.t = "absent"
    \/ raw.t = "num" /\ raw.n >= LimitMin /\ raw.n <= LimitMax + 1

\* z.number().int().min(1).max(20).optional().default(5)
LimitField(raw) ==
    \/ raw.t = "absent"
    \/ raw.t = "num" /\ raw.n >= LimitMin /\ raw.n <= LimitMax

LimitValue(raw) == IF raw.t = "absent" THEN Num(LimitDefault) ELSE raw

\* z.enum(values).optional().default("all")
EnumField(raw, values) == raw.t = "absent" \/ (raw.t = "str" /\ raw.s \in values)

EnumValue(raw) == IF raw.t = "absent" THEN "all" ELSE raw.s

FirstIssue(raw, typeValues) ==
    IF ~raw.obj THEN "Expected object"
    ELSE IF ~QueryField(raw.query) THEN "query: invalid"
    ELSE IF ~EnumField(raw.type, typeValues) THEN "type: invalid enum value"
    ELSE IF ~LimitField(raw.limit) THEN "limit: invalid"
    ELSE ""

\* searchCodeSchema / searchClientCodeSchema: query, limit, classFilter (unknown keys are stripped)
searchCodeSchema(raw) ==
    IF raw.obj /\ QueryField(raw.query) /\ LimitField(raw.limit)
    THEN ParseOk([query |-> raw.query.s, limit |-> LimitValue(raw.limit), type |-> "all"])
    ELSE ParseFail(FirstIssue([raw EXCEPT !.type = Absent], {"all"}))

searchGameDataSchema(raw) ==
    IF raw.obj /\ QueryField(raw.query) /\ EnumField(raw.type, GAME_DATA_TYPES)
              /\ LimitField(raw.limit)
    THEN ParseOk([query |-> raw.query.s, limit |-> LimitValue(raw.limit),
                  type |-> EnumValue(raw.type)])
    ELSE ParseFail(FirstIssue(raw, GAME_DATA_TYPES))

searchDocsSchema(raw) ==
    IF raw.obj /\ QueryField(raw.query) /\ EnumField(raw.type, DOCS_TYPES)
              /\ LimitField(raw.limit)
    THEN ParseOk([query |-> raw.query.s, limit |-> LimitValue(raw.limit),
                  type |-> EnumValue(raw.type)])
    ELSE ParseFail(FirstIssue(raw, DOCS_TYPES))

\* z.object({}): any object parses, every key is stripped
emptySchema(raw) ==
    IF raw.obj
    THEN ParseOk([query |-> "", limit |-> Absent, type |-> ""])
    ELSE ParseFail("Expected object")

----------------------------------------------------------------------------
(* Bootstrap: the ToolContext main() builds from the configuration. *)

NoError == ""
EnvFileError == ".env file misconfigured"
MissingKeyError == "API key not configured"
KeyFormatError == "Invalid API key format"

Providers == {"voyage", "openai", "cohere"}
ApiKeys == {"", "pa-key", "sk-key"}

\* validateApiKeyFormat: the key's prefix must match the provider
validateApiKeyFormat(provider, apiKey) ==
    IF provider = "voyage" /\ apiKey # "pa-key" THEN KeyFormatError
    ELSE IF provider = "openai" /\ apiKey # "sk-key" THEN KeyFormatError
    ELSE NoError

ConfigErrorOfKeyFirst(envFileError, provider, apiKey) ==
    IF apiKey = "" THEN MissingKeyError
    ELSE IF envFileError THEN EnvFileError
    ELSE validateApiKeyFormat(provider, apiKey)

\* configError: the .env check first, then the missing key, then the key's format
ConfigErrorOf(envFileError, provider, apiKey) ==
    IF envFileError THEN EnvFileError
    ELSE IF apiKey = "" THEN MissingKeyError
    ELSE validateApiKeyFormat(provider, apiKey)

BuildContext(envFileError, provider, apiKey) ==
    LET configError == ConfigErrorOf(envFileError, provider, apiKey)
    IN [configError |-> configError,
        embedding |-> (configError = NoError /\ apiKey # "")]

----------------------------------------------------------------------------
(* Vector store: tables of rows; each row carries its distance to the query *)
(* vector, in tenths (One is a distance or score of 1.0).                   *)

One == 10

DocsTable == "hytale_docs"
TableNames == {"hytale_methods", "hytale_client_ui", "hytale_gamedata", DocsTable}

NoFilter == ""

Row(id, type, category, distance) ==
    [id |-> id, type |-> type, category |-> category, distance |-> distance]

\* the table the serving specification is seeded with
SeededRows == <<Row(1, "guide", "plugin", 13), Row(2, "reference", "", 2),
                Row(3, "guide", "ecs", 7)>>

NoTable == [exists |-> FALSE, rows |-> << >>]
TableOf(rows) == [exists |-> TRUE, rows |-> rows]

RECURSIVE Insert(_, _)
\* the engine's ranking: ascending distance, earlier rows first among equals
Insert(row, sorted) ==
    IF sorted = << >> THEN <<row>>
    ELSE IF row.distance < Head(sorted).distance THEN <<row>> \o sorted
    ELSE <<Head(sorted)>> \o Insert(row, Tail(sorted))

RECURSIVE Nearest(_)
Nearest(rows) ==
    IF rows = << >> THEN << >>
    ELSE Insert(rows[Len(rows)], Nearest(SubSeq(rows, 1, Len(rows) - 1)))

Matches(row, filter) == filter = NoFilter \/ row.type = filter

vectorSearchPostFilter(rows, limit, filter) ==
    LET ranked == Nearest(rows)
        nearest == SubSeq(ranked, 1, Min(limit, Len(ranked)))
    IN SelectSeq(nearest, LAMBDA r : Matches(r, filter))

\* table.vectorSearch(queryVector).limit(limit).where(filter).toArray()
vectorSearch(rows, limit, filter) ==
    LET matching == SelectSeq(rows, LAMBDA r : Matches(r, filter))
        ranked == Nearest(matching)
    IN SubSeq(ranked, 1, Min(limit, Len(ranked)))

ScoreIsDistance(distance) == distance

\* score: 1 - (row._distance || 0)
Score(distance) == One - (IF distance = 0 THEN 0 ELSE distance)

\* db.ts search: the ranked rows with their similarity score
search(rows, limit, filter) ==
    LET results == vectorSearch(rows, limit, filter)
    IN [i \in 1..Len(results) |->
          [id |-> results[i].id, type |-> results[i].type,
           category |-> results[i].category, score |-> Score(results[i].distance)]]

----------------------------------------------------------------------------
(* Tool handlers. A handler run ends by returning a ToolResult or by       *)
(* throwing; calls lists the provider and store calls it made.             *)

Success(data) == [success |-> TRUE, error |-> "", data |-> data]
Failure(msg) == [success |-> FALSE, error |-> msg, data |-> << >>]

Return(result, calls) == [kind |-> "return", result |-> result, calls |-> calls]
Throw(msg, calls) == [kind |-> "throw", result |-> Failure(msg), calls |-> calls]

Call(op, limit, filter, ok) == [op |-> op, limit |-> limit, filter |-> filter, ok |-> ok]

EmbedError == "Voyage API error"
StoreError == "store error"
TableNotFound == "Table not found"

PropagateBlank(msg, calls) == Throw("", calls)

\* a rejected await with no try/catch around it rejects the handler's promise
Propagate(msg, calls) == Throw(msg, calls)

\* Math.min(Math.max(1, input.limit ?? 5), 20)
ClampLimit(limit) == Min(Max(1, IF limit.t = "absent" THEN 5 ELSE limit.n), 20)

SearchDocsHandlerEmbedFirst(input, ctx, st, embedOk, storeOk) ==
    LET embedCall == Call("embedQuery", 0, "text", embedOk)
    IN IF ~embedOk THEN Throw(EmbedError, <<embedCall>>)
       ELSE Return(Failure(IF ctx.configError # "" THEN ctx.configError
                           ELSE "Embedding provider not configured"), <<embedCall>>)

\* searchDocsTool.handler
SearchDocsHandler(input, ctx, st, embedOk, storeOk) ==
    IF ctx.configError # NoError \/ ~ctx.embedding
    THEN Return(Failure(IF ctx.configError # NoError THEN ctx.configError
                        ELSE "Embedding provider not configured"), << >>)
    ELSE LET limit == ClampLimit(input.limit)
             embedCall == Call("embedQuery", 0, "text", embedOk)
             filter == IF input.type # "" /\ input.type # "all" THEN input.type ELSE NoFilter
             table == st[DocsTable]
             searchOk == storeOk /\ table.exists
             searchCall == Call("search", limit, filter, searchOk)
         IN IF ~embedOk THEN Propagate(EmbedError, <<embedCall>>)
            ELSE IF ~searchOk
            THEN Propagate(IF table.exists THEN StoreError ELSE TableNotFound,
                           <<embedCall, searchCall>>)
            ELSE Return(Success(search(table.rows, limit, filter)),
                        <<embedCall, searchCall>>)

\* row.category || "Other"
CategoryOf(row) == IF row.category = "" THEN "Other" ELSE row.category

\* row.type || "unknown"
TypeOf(row) == IF row.type = "" THEN "unknown" ELSE row.type

\* byCategory: each category with the number of rows counted under it
CountByCategory(rows) ==
    {<<k, Cardinality({i \in 1..Len(rows) : CategoryOf(rows[i]) = k})>> :
        k \in {CategoryOf(rows[i]) : i \in 1..Len(rows)}}

CountByTypeSkippingEmpty(rows) ==
    {<<k, Cardinality({i \in 1..Len(rows) : rows[i].type = k})>> :
        k \in {rows[i].type : i \in 1..Len(rows)} \ {""}}

\* byType: each type with the number of rows counted under it
CountByType(rows) ==
    {<<k, Cardinality({i \in 1..Len(rows) : TypeOf(rows[i]) = k})>> :
        k \in {TypeOf(rows[i]) : i \in 1..Len(rows)}}

DocsIngestMessage ==
    "Documentation table not found. Run 'npm run ingest-docs' to index the documentation."

DocsStatsHandlerNoExistsCheck(input, ctx, st, embedOk, storeOk) ==
    IF ctx.configError # "" THEN Return(Failure(ctx.configError), << >>)
    ELSE IF ~st["hytale_docs"].exists \/ ~storeOk
    THEN Return(Failure(IF st["hytale_docs"].exists THEN StoreError ELSE TableNotFound),
                <<Call("getStats", 0, "", FALSE)>>)
    ELSE Return(Success(<<[totalDocs |-> Len(st["hytale_docs"].rows),
                           byCategory |-> CountByCategory(st["hytale_docs"].rows),
                           byType |-> CountByType(st["hytale_docs"].rows)]>>),
                <<Call("getStats", 0, "", TRUE), Call("queryAll", 0, "", TRUE)>>)

\* docsStatsTool.handler
DocsStatsHandler(input, ctx, st, embedOk, storeOk) ==
    IF ctx.configError # NoError THEN Return(Failure(ctx.configError), << >>)
    ELSE LET table == st[DocsTable]
             existsCall == Call("tableExists", 0, NoFilter, TRUE)
             statsCall == Call("getStats", 0, NoFilter, storeOk)
             scanCall == Call("queryAll", 0, NoFilter, TRUE)
         IN IF ~table.exists
            THEN Return(Failure(DocsIngestMessage), <<existsCall>>)
            ELSE IF ~storeOk THEN Return(Failure(StoreError), <<existsCall, statsCall>>)
            ELSE Return(Success(<<[totalDocs |-> Len(table.rows),
                                   byCategory |-> CountByCategory(table.rows),
                                   byType |-> CountByType(table.rows)]>>),
                        <<existsCall, statsCall, scanCall>>)

\* the search tools whose definitions main() imports: configError first, then
\* embedQuery and search, every failure turned into a ToolResult
SearchToolHandler(tableName, input, ctx, st, embedOk, storeOk) ==
    IF ctx.configError # NoError \/ ~ctx.embedding
    THEN Return(Failure(IF ctx.configError # NoError THEN ctx.configError
                        ELSE "Embedding provider not configured"), << >>)
    ELSE LET given == IF input.limit.t = "absent" THEN LimitDefault ELSE input.limit.n
             limit == Min(Max(LimitMin, given), LimitMax)
             embedCall == Call("embedQuery", 0, "code", embedOk)
             filter == IF input.type # "" /\ input.type # "all" THEN input.type ELSE NoFilter
             table == st[tableName]
             searchOk == storeOk /\ table.exists
             searchCall == Call("search", limit, filter, searchOk)
         IN IF ~embedOk THEN Return(Failure(EmbedError), <<embedCall>>)
            ELSE IF ~searchOk
            THEN Return(Failure(IF table.exists THEN StoreError ELSE TableNotFound),
                        <<embedCall, searchCall>>)
            ELSE Return(Success(search(table.rows, limit, filter)),
                        <<embedCall, searchCall>>)

StatsIngestMessage == "Table not found. Run the ingest command first."

\* the stats tools whose definitions main() imports
StatsToolHandler(tableName, input, ctx, st, embedOk, storeOk) ==
    IF ctx.configError # NoError THEN Return(Failure(ctx.configError), << >>)
    ELSE LET table == st[tableName]
             existsCall == Call("tableExists", 0, NoFilter, TRUE)
             statsCall == Call("getStats", 0, NoFilter, storeOk)
         IN IF ~table.exists
            THEN Return(Failure(StatsIngestMessage), <<existsCall>>)
            ELSE IF ~storeOk THEN Return(Failure(StoreError), <<existsCall, statsCall>>)
            ELSE Return(Success(<<[totalDocs |-> Len(table.rows), byCategory |-> {},
                                   byType |-> {}]>>),
                        <<existsCall, statsCall>>)

----------------------------------------------------------------------------
(* Tool registry. *)

Def(name, impl) == [name |-> name, impl |-> impl]

\* the registrations of main(), in order
MainTools == <<"search_code", "search_client_code", "search_gamedata",
               "code_stats", "client_code_stats", "gamedata_stats">>

DocsTools == {"search_hytale_docs", "hytale_docs_stats"}
ToolNames == {MainTools[i] : i \in 1..Len(MainTools)} \cup DocsTools

Names(ts) == {ts[i].name : i \in 1..Len(ts)}

\* get(name): the definition registered under the name (callers check Names first)
Get(ts, name) == ts[CHOOSE i \in 1..Len(ts) : ts[i].name = name]

RegisterOverwrite(ts, def) ==
    IF def.name \in Names(ts)
    THEN [tools |-> [i \in 1..Len(ts) |-> IF ts[i].name = def.name THEN def ELSE ts[i]],
          error |-> ""]
    ELSE [tools |-> Append(ts, def), error |-> ""]

\* register(def)
RegisterResult(ts, def) ==
    IF def.name \in Names(ts)
    THEN [tools |-> ts, error |-> "DuplicateToolError"]
    ELSE [tools |-> Append(ts, def), error |-> ""]

\* the inputSchema of each tool definition
SchemaOf(name, raw) ==
    CASE name \in {"search_code", "search_client_code"} -> searchCodeSchema(raw)
      [] name = "search_gamedata" -> searchGameDataSchema(raw)
      [] name = "search_hytale_docs" -> searchDocsSchema(raw)
      [] OTHER -> emptySchema(raw)

\* the handler of each tool definition
HandlerOf(name, input, ctx, st, embedOk, storeOk) ==
    CASE name = "search_hytale_docs" -> SearchDocsHandler(input, ctx, st, embedOk, storeOk)
      [] name = "hytale_docs_stats" -> DocsStatsHandler(input, ctx, st, embedOk, storeOk)
      [] name = "search_code" ->
            SearchToolHandler("hytale_methods", input, ctx, st, embedOk, storeOk)
      [] name = "search_client_code" ->
            SearchToolHandler("hytale_client_ui", input, ctx, st, embedOk, storeOk)
      [] name = "search_gamedata" ->
            SearchToolHandler("hytale_gamedata", input, ctx, st, embedOk, storeOk)
      [] name = "code_stats" ->
            StatsToolHandler("hytale_methods", input, ctx, st, embedOk, storeOk)
      [] name = "client_code_stats" ->
            StatsToolHandler("hytale_client_ui", input, ctx, st, embedOk, storeOk)
      [] OTHER -> StatsToolHandler("hytale_gamedata", input, ctx, st, embedOk, storeOk)

NoRun == [kind |-> "none", result |-> Failure(""), calls |-> << >>]

\* invoke(name, rawInput, context): look up, validate, run the handler, wrap what it throws
InvokeResult(ts, name, raw, ctx, st, embedOk, storeOk) ==
    IF name \notin Names(ts)
    THEN [outcome |-> "throw", result |-> Failure("UnknownTool"), handler |-> NoRun]
    ELSE LET parsed == SchemaOf(name, raw)
         IN IF ~parsed.ok
            THEN [outcome |-> "return", result |-> Failure(parsed.error), handler |-> NoRun]
            ELSE LET run == HandlerOf(name, parsed.value, ctx, st, embedOk, storeOk)
                 IN [outcome |-> "return", result |-> run.result, handler |-> run]

----------------------------------------------------------------------------
(* Client-UI ingestion: parse, embed in batches, store.                    *)

\* the most chunks the parser is modelled to produce, and the distinct texts they carry
MaxChunks == 3
MaxText == 2
\* the largest batchSize option tried besides the helpers' own
MaxBatchSize == 2
\* how long a slow provider call takes, and how late a timer may fire (ms)
SlowMs == 250
JitterMs == 30

\* batchSize and rateLimitMs the embed helpers construct the provider with
HelperBatchSize == 128
rateLimitMs == 100

Chunk(id, text) == [id |-> id, text |-> text]

\* parseClientUIDirectory: any list of chunks, ids in file order
ParserOutputs ==
    UNION {{[i \in 1..n |-> Chunk(i, f[i])] : f \in [1..n -> 1..MaxText]} : n \in 0..MaxChunks}

BatchSizes == (1..MaxBatchSize) \cup {HelperBatchSize}

\* the vector the provider returns for a text
Embed(text) == text * 10 + 7

\* chunks.map((chunk) => chunk.textForEmbedding)
TextsOf(cs) == [i \in 1..Len(cs) |-> cs[i].text]

\* the provider's response to one batch: one vector per text, in order
EmbedTexts(texts) == [i \in 1..Len(texts) |-> Embed(texts[i])]

CombineReversed(cs, vectors) ==
    [i \in 1..Len(cs) |-> [id |-> cs[i].id, text |-> cs[i].text,
                           vector |-> vectors[Len(cs) + 1 - i]]]

\* chunks.map((chunk, i) => ({ ...chunk, vector: result.vectors[i] }))
Combine(cs, vectors) ==
    [i \in 1..Len(cs) |-> [id |-> cs[i].id, text |-> cs[i].text, vector |-> vectors[i]]]

NoBatch ==
    [status |-> "idle", sent |-> 0, vectors |-> << >>, calls |-> 0, completed |-> 0,
     inflight |-> 0, startAt |-> 0, doneAt |-> 0]

ProgressUncapped(sent, size, total) == sent + size

\* the cumulative count reported after a batch: Math.min(i + batchSize, texts.length)
ProgressValue(sent, size, total) == Min(sent + size, total)

WakeTimeNoDelay(doneAt, jitter) == doneAt + jitter

\* await sleep(rateLimitMs): the timer fires rateLimitMs after the batch completed, or later
WakeTime(doneAt, jitter) == doneAt + rateLimitMs + jitter

AfterEmbedFailureContinue(cs, b) ==
    [ipc |-> "store", embedded |-> Combine(SubSeq(cs, 1, Len(b.vectors)), b.vectors)]

\* catch (e) { console.error(...); process.exit(1) }
AfterEmbedFailure(cs, b) == [ipc |-> "exit1", embedded |-> << >>]

OldUIRows == <<[id |-> 9, text |-> 1, vector |-> 17]>>

IngestIdle ==
    /\ ipc = "start"
    /\ chunks = << >>
    /\ batchSize = HelperBatchSize
    /\ batch = NoBatch
    /\ progress = << >>
    /\ clock = 0
    /\ embedded = << >>
    /\ uiTable = NoTable

----------------------------------------------------------------------------
(* Protocol adapters: lifecycle, requests and responses on the wire.       *)

Modes == {"mcp", "rest", "openai", "all"}
AdapterNames == {"mcp", "rest", "openai"}

NotStarted == [a \in AdapterNames |-> "Uninitialized"]

\* the adapters main() starts for a server mode, in starting order
StartedBy(m) ==
    CASE m = "mcp" -> <<"mcp">>
      [] m = "rest" -> <<"rest">>
      [] m = "openai" -> <<"openai">>
      [] OTHER -> <<"rest", "openai">>

ExitsOnAnyMode(m, configError) == configError # NoError

\* if (configError && config.server.mode !== "mcp") { ...; process.exit(1) }
ExitsOnConfigError(m, configError) == configError # NoError /\ m # "mcp"

CreatedServing(state) == "Serving"

\* createRESTServer / createOpenAIServer, the first half of startMCPServer
Created(state) == "Ready"

\* the adapter stops accepting requests: it drains the ones it is running
ShutdownState(busy) == IF busy THEN "Draining" ELSE "Stopped"

\* the tool list an adapter advertises once it is Ready: registry.list()
Advertised(ts, state) == IF state = "Uninitialized" THEN {} ELSE Names(ts)

Request(id, via, name, raw) == [id |-> id, via |-> via, name |-> name, raw |-> raw]

HttpOk == 200
HttpBadRequest == 400
HttpServerError == 500
FailureStatuses == {HttpBadRequest, HttpServerError}

RestStatusAlwaysOk(result, failStatus) == HttpOk

\* REST: success=true maps to 200, success=false to a 4xx/5xx status
RestStatus(result, failStatus) == IF result.success THEN HttpOk ELSE failStatus

ResponseIdOfOldest(req, others) ==
    LET ids == {r.id : r \in others \cup {req}}
    IN CHOOSE i \in ids : \A j \in ids : i <= j

\* stdio: the response carries the id of the request it answers
ResponseId(req, others) == req.id

\* the response an adapter sends for a ToolResult, in its wire shape
Encode(req, others, result, failStatus) ==
    CASE req.via = "mcp" ->
            [id |-> ResponseId(req, others), via |-> "mcp", status |-> 0,
             isError |-> ~result.success, data |-> result.data, error |-> result.error]
      [] req.via = "rest" ->
            [id |-> req.id, via |-> "rest", status |-> RestStatus(result, failStatus),
             isError |-> FALSE, data |-> result.data, error |-> result.error]
      [] OTHER ->
            [id |-> req.id, via |-> "openai", status |-> HttpOk,
             isError |-> ~result.success, data |-> result.data, error |-> result.error]

\* the ToolResult a client reads out of a response
Decode(resp) ==
    [success |-> IF resp.via = "rest" THEN resp.status = HttpOk ELSE ~resp.isError,
     error |-> resp.error, data |-> resp.data]

DispatchUnvalidated(a, ts, name, raw, ctx, st) ==
    IF a = "rest"
    THEN HandlerOf(name, [query |-> raw.query.s, limit |-> raw.limit, type |-> "all"],
                   ctx, st, TRUE, TRUE).result
    ELSE InvokeResult(ts, name, raw, ctx, st, TRUE, TRUE).result

\* every adapter hands the tool name and the raw input to registry.invoke
Dispatch(a, ts, name, raw, ctx, st) == InvokeResult(ts, name, raw, ctx, st, TRUE, TRUE).result

NoScan == [kind |-> "none", rows |-> 0, pageSize |-> 1, offset |-> 0, visited |-> << >>,
           pages |-> << >>, done |-> FALSE]
NoDbOp == [name |-> "", chunks |-> << >>, ok |-> FALSE]

AuxIdle == scan = NoScan /\ dbop = NoDbOp

WireIdle ==
    /\ mode = "mcp"
    /\ connected = FALSE
    /\ adapters = NotStarted
    /\ concurrent = FALSE
    /\ inbox = << >>
    /\ running = {}
    /\ outbox = << >>

----------------------------------------------------------------------------
(* The serving process: main() registers its tools and starts an adapter;  *)
(* requests then reach the registry.                                       *)

NoCall ==
    [kind |-> "none", name |-> "", impl |-> "", raw |-> NotAnObject, outcome |-> "",
     result |-> Failure(""), handler |-> NoRun, before |-> << >>]

SeededStore == [t \in TableNames |-> TableOf(SeededRows)]

Init ==
    /\ phase = "boot"
    /\ tools = << >>
    /\ context \in {BuildContext(e, p, k) : e \in BOOLEAN, p \in Providers, k \in ApiKeys}
    /\ store = SeededStore
    /\ last = NoCall
    /\ prevThrew = FALSE
    /\ IngestIdle
    /\ WireIdle
    /\ AuxIdle

\* registry.register(searchCodeTool); ... registry.register(gameDataStatsTool)
MainRegister ==
    /\ phase = "boot"
    /\ Len(tools) < Len(MainTools)
    /\ LET def == Def(MainTools[Len(tools) + 1], "v1")
           r == RegisterResult(tools, def)
       IN /\ tools' = r.tools
          /\ last' = [NoCall EXCEPT !.kind = "register", !.name = def.name, !.impl = def.impl,
                                    !.outcome = r.error, !.before = tools]
    /\ UNCHANGED <<phase, context, store, prevThrew, ingestVars, wireVars, auxVars>>

\* startMCPServer / startRESTServer / startOpenAIServer
StartServers ==
    /\ phase = "boot"
    /\ Len(tools) = Len(MainTools)
    /\ phase' = "serving"
    /\ UNCHANGED <<tools, context, store, last, prevThrew, ingestVars, wireVars, auxVars>>

\* the documentation tools, and a second definition under a name main() registered
RegisterProbes ==
    {Def(n, "v1") : n \in DocsTools} \cup {Def("search_code", "v2")}

\* a further register(def) call on the running registry
Register(def) ==
    /\ phase = "serving"
    /\ last.kind = "none"
    /\ LET r == RegisterResult(tools, def)
       IN /\ tools' = r.tools
          /\ last' = [NoCall EXCEPT !.kind = "register", !.name = def.name, !.impl = def.impl,
                                    !.outcome = r.error, !.before = tools]
    /\ UNCHANGED <<phase, context, store, prevThrew, ingestVars, wireVars, auxVars>>

\* an adapter hands a request to registry.invoke
Invoke(name, raw, embedOk, storeOk) ==
    /\ phase = "serving"
    /\ last.kind = "none"
    /\ LET r == InvokeResult(tools, name, raw, context, store, embedOk, storeOk)
       IN last' = [NoCall EXCEPT !.kind = "invoke", !.name = name, !.raw = raw,
                                 !.outcome = r.outcome, !.result = r.result,
                                 !.handler = r.handler, !.before = tools]
    /\ UNCHANGED <<phase, tools, context, store, prevThrew, ingestVars, wireVars, auxVars>>

\* the caller takes the outcome of the call; the registry is ready for the next one
Complete ==
    /\ last.kind # "none"
    /\ last' = NoCall
    /\ prevThrew' = (last.kind = "invoke" /\ last.handler.kind = "throw")
    /\ UNCHANGED <<phase, tools, context, store, ingestVars, wireVars, auxVars>>

Next ==
    \/ MainRegister
    \/ StartServers
    \/ Complete
    \/ \E def \in RegisterProbes : Register(def)
    \/ \E n \in ToolNames \cup {"no_such_tool"}, raw \in RawInputs,
          embedOk \in BOOLEAN, storeOk \in BOOLEAN : Invoke(n, raw, embedOk, storeOk)

Spec == Init /\ [][Next]_vars

----------------------------------------------------------------------------
(* The ingestion run: ingest-client main() and the embedBatch call it awaits. *)

ServeIdle ==
    /\ phase = "boot"
    /\ tools = << >>
    /\ context = BuildContext(FALSE, "voyage", "pa-key")
    /\ store = SeededStore
    /\ last = NoCall
    /\ prevThrew = FALSE

InitIngest ==
    /\ ServeIdle
    /\ ipc = "start"
    /\ chunks = << >>
    /\ batchSize \in BatchSizes
    /\ batch = NoBatch
    /\ progress = << >>
    /\ clock = 0
    /\ embedded = << >>
    /\ uiTable \in {NoTable, TableOf(OldUIRows)}
    /\ WireIdle
    /\ AuxIdle

\* VOYAGE_API_KEY and the Client/Data directory are checked before anything else
CheckArguments(apiKeySet, dirExists) ==
    /\ ipc = "start"
    /\ ipc' = IF apiKeySet /\ dirExists THEN "parse" ELSE "exit1"
    /\ UNCHANGED <<chunks, batchSize, batch, progress, clock, embedded, uiTable>>
    /\ UNCHANGED <<serveVars, wireVars, auxVars>>

AfterParseUnchecked(cs) == "embed"

\* if (chunks.length === 0) { console.error(...); process.exit(1) }
AfterParse(cs) == IF Len(cs) = 0 THEN "exit1" ELSE "embed"

\* Step 1: parse; no chunks ends the run with exit code 1
Parse(cs) ==
    /\ ipc = "parse"
    /\ chunks' = cs
    /\ ipc' = AfterParse(cs)
    /\ UNCHANGED <<batchSize, batch, progress, clock, embedded, uiTable>>
    /\ UNCHANGED <<serveVars, wireVars, auxVars>>

\* embedBatch: the provider is called with the next batchSize texts
CallProvider ==
    /\ ipc = "embed"
    /\ batch.status \in {"idle", "ready"}
    /\ batch.sent < Len(chunks)
    /\ batch' = [batch EXCEPT !.status = "calling", !.calls = @ + 1, !.inflight = @ + 1,
                              !.startAt = clock]
    /\ UNCHANGED <<ipc, chunks, batchSize, progress, clock, embedded, uiTable>>
    /\ UNCHANGED <<serveVars, wireVars, auxVars>>

\* the provider answers the call in flight after latency ms: its vectors are appended and
\* onProgress is called
ProviderResponds(latency) ==
    /\ ipc = "embed"
    /\ batch.status = "calling"
    /\ LET texts == TextsOf(chunks)
           upto == Min(batch.sent + batchSize, Len(texts))
           more == upto < Len(texts)
       IN /\ batch' = [batch EXCEPT !.status = IF more THEN "sleeping" ELSE "ok",
                                    !.sent = upto,
                                    !.vectors = @ \o EmbedTexts(SubSeq(texts, batch.sent + 1, upto)),
                                    !.completed = @ + 1,
                                    !.inflight = @ - 1,
                                    !.doneAt = clock + latency]
          /\ progress' = Append(progress, ProgressValue(batch.sent, batchSize, Len(texts)))
    /\ clock' = clock + latency
    /\ UNCHANGED <<ipc, chunks, batchSize, embedded, uiTable>>
    /\ UNCHANGED <<serveVars, wireVars, auxVars>>

\* the provider call in flight fails (HTTP error, malformed response): embedBatch throws
ProviderFails(latency) ==
    /\ ipc = "embed"
    /\ batch.status = "calling"
    /\ batch' = [batch EXCEPT !.status = "failed", !.vectors = << >>, !.completed = @ + 1,
                              !.inflight = @ - 1, !.doneAt = clock + latency]
    /\ clock' = clock + latency
    /\ UNCHANGED <<ipc, chunks, batchSize, progress, embedded, uiTable>>
    /\ UNCHANGED <<serveVars, wireVars, auxVars>>

\* the rate-limit delay between two batches ends
Wake(jitter) ==
    /\ ipc = "embed"
    /\ batch.status = "sleeping"
    /\ clock' = WakeTime(batch.doneAt, jitter)
    /\ batch' = [batch EXCEPT !.status = "ready"]
    /\ UNCHANGED <<ipc, chunks, batchSize, progress, embedded, uiTable>>
    /\ UNCHANGED <<serveVars, wireVars, auxVars>>

\* embedBatch resolved: embedClientUIChunks pairs the chunks with the vectors; Step 3 is next
EmbedReturns ==
    /\ ipc = "embed"
    /\ batch.status = "ok"
    /\ embedded' = Combine(chunks, batch.vectors)
    /\ ipc' = "store"
    /\ UNCHANGED <<chunks, batchSize, batch, progress, clock, uiTable>>
    /\ UNCHANGED <<serveVars, wireVars, auxVars>>

\* embedBatch rejected: embedClientUIChunks rejects and main() catches it
EmbedThrows ==
    /\ ipc = "embed"
    /\ batch.status = "failed"
    /\ ipc' = AfterEmbedFailure(chunks, batch).ipc
    /\ embedded' = AfterEmbedFailure(chunks, batch).embedded
    /\ UNCHANGED <<chunks, batchSize, batch, progress, clock, uiTable>>
    /\ UNCHANGED <<serveVars, wireVars, auxVars>>

\* createClientUITable: drop the table if it exists, then create it from the chunks
StoreChunks(failAt) ==
    /\ ipc = "store"
    /\ uiTable' = CASE failAt = "connect" -> uiTable
                    [] failAt = "create" -> NoTable
                    [] OTHER -> TableOf(embedded)
    /\ ipc' = IF failAt = "none" THEN "done" ELSE "exit1"
    /\ UNCHANGED <<chunks, batchSize, batch, progress, clock, embedded>>
    /\ UNCHANGED <<serveVars, wireVars, auxVars>>

NextIngest ==
    \/ \E apiKeySet \in BOOLEAN, dirExists \in BOOLEAN : CheckArguments(apiKeySet, dirExists)
    \/ \E cs \in ParserOutputs : Parse(cs)
    \/ CallProvider
    \/ \E latency \in {0, SlowMs} : ProviderResponds(latency)
    \/ \E latency \in {0, SlowMs} : ProviderFails(latency)
    \/ \E jitter \in {0, JitterMs} : Wake(jitter)
    \/ EmbedReturns
    \/ EmbedThrows
    \/ \E failAt \in {"none", "connect", "create"} : StoreChunks(failAt)

SpecIngest == InitIngest /\ [][NextIngest]_vars

----------------------------------------------------------------------------
(* Searching a populated documentation table through the registry. *)

\* the most rows of a table, the largest limit asked for, the largest distance (tenths)
MaxRows == 3
MaxSearchLimit == 3
MaxDistance == 15

Distances == {0, 4, One, MaxDistance}

\* tables of the documentation store: ids in insertion order
DocsTables ==
    UNION {{[i \in 1..n |-> Row(i, ty[i], "plugin", d[i])] :
               ty \in [1..n -> {"guide", "reference"}], d \in [1..n -> Distances]} :
           n \in 1..MaxRows}

AllTools ==
    [i \in 1..Len(MainTools) |-> Def(MainTools[i], "v1")]
        \o <<Def("search_hytale_docs", "v1"), Def("hytale_docs_stats", "v1")>>

SearchInputs ==
    [obj : {TRUE}, query : {Str("q")},
     limit : {Absent} \cup {Num(k) : k \in 1..MaxSearchLimit},
     type : {Absent, Str("all"), Str("guide")}]

InitStore ==
    /\ phase = "serving"
    /\ tools = AllTools
    /\ context = BuildContext(FALSE, "voyage", "pa-key")
    /\ \E rows \in DocsTables : store = [SeededStore EXCEPT ![DocsTable] = TableOf(rows)]
    /\ last = NoCall
    /\ prevThrew = FALSE
    /\ IngestIdle
    /\ WireIdle
    /\ AuxIdle

NextStore ==
    \/ \E raw \in SearchInputs : Invoke("search_hytale_docs", raw, TRUE, TRUE)
    \/ Complete

SpecStore == InitStore /\ [][NextStore]_vars

----------------------------------------------------------------------------
(* The statistics and search tools over stores whose tables may be missing, *)
(* empty or seeded, under every ToolContext.                                *)

\* the most records the documentation table is seeded with
MaxDocs == 2

StatsToolNames == {"code_stats", "client_code_stats", "gamedata_stats", "hytale_docs_stats"}

\* the table each stats tool reads
StatsTableOf(name) ==
    CASE name = "code_stats" -> "hytale_methods"
      [] name = "client_code_stats" -> "hytale_client_ui"
      [] name = "gamedata_stats" -> "hytale_gamedata"
      [] OTHER -> DocsTable

\* a ToolContext without an embedding provider and without a config error
NoEmbeddingContext == [configError |-> NoError, embedding |-> FALSE]

Contexts ==
    {BuildContext(e, p, k) : e \in BOOLEAN, p \in Providers, k \in ApiKeys}
        \cup {NoEmbeddingContext}

\* an object with a valid query, and something that is not an object
StatsInputs ==
    {NotAnObject, [obj |-> TRUE, query |-> Str("q"), limit |-> Absent, type |-> Absent]}

InitStats ==
    /\ phase = "serving"
    /\ tools = AllTools
    /\ context \in Contexts
    /\ \E others \in {NoTable, TableOf(SeededRows)}, docs \in {NoTable, TableOf(<< >>)} :
          store = [t \in TableNames |-> IF t = DocsTable THEN docs ELSE others]
    /\ last = NoCall
    /\ prevThrew = FALSE
    /\ IngestIdle
    /\ WireIdle
    /\ AuxIdle

\* the documentation ingestion adds a record to the table, creating the table if missing
SeedDocs(type, category) ==
    /\ last.kind = "none"
    /\ Len(store[DocsTable].rows) < MaxDocs
    /\ store' = [store EXCEPT ![DocsTable] =
                    TableOf(Append(store[DocsTable].rows,
                                   Row(Len(store[DocsTable].rows) + 1, type, category, 0)))]
    /\ UNCHANGED <<phase, tools, context, last, prevThrew, ingestVars, wireVars, auxVars>>

NextStats ==
    \/ \E type \in {"guide", ""}, category \in {"plugin", ""} : SeedDocs(type, category)
    \/ \E n \in StatsToolNames \cup {"search_code", "search_hytale_docs"}, raw \in StatsInputs,
          embedOk \in BOOLEAN, storeOk \in BOOLEAN : Invoke(n, raw, embedOk, storeOk)
    \/ Complete

SpecStats == InitStats /\ [][NextStats]_vars

----------------------------------------------------------------------------
(* main() from configuration to running adapters, and the requests the     *)
(* adapters then serve.                                                    *)

\* the most requests that arrive in one run
MaxRequests == 2

WireTools == {"search_code", "code_stats"}
WireInputs ==
    [obj : {TRUE}, query : {Str("q")}, limit : {Num(5), Num(21)}, type : {Absent}]

\* the id of the next request: requests are numbered in arrival order
NextId == Len(inbox) + Cardinality(running) + Len(outbox) + 1

InitMain ==
    /\ phase = "config"
    /\ tools = << >>
    /\ context \in {BuildContext(e, p, k) : e \in BOOLEAN, p \in Providers, k \in ApiKeys}
    /\ store = SeededStore
    /\ last = NoCall
    /\ prevThrew = FALSE
    /\ IngestIdle
    /\ mode \in Modes
    /\ connected = FALSE
    /\ adapters = NotStarted
    /\ concurrent \in BOOLEAN
    /\ inbox = << >>
    /\ running = {}
    /\ outbox = << >>
    /\ AuxIdle

\* the configuration check: a config error ends every mode but mcp
CheckConfig ==
    /\ phase = "config"
    /\ phase' = IF ExitsOnConfigError(mode, context.configError) THEN "exit1" ELSE "connect"
    /\ UNCHANGED <<tools, context, store, last, prevThrew, ingestVars, wireVars, auxVars>>

AfterConnectIgnoringFailure(ok) == "boot"

\* main().catch: a rejected connect() is logged as a fatal error and process.exit(1)
AfterConnect(ok) == IF ok THEN "boot" ELSE "exit1"

\* await vectorStore.connect(); a rejection reaches main().catch and exits
Connect(ok) ==
    /\ phase = "connect"
    /\ connected' = ok
    /\ phase' = AfterConnect(ok)
    /\ UNCHANGED <<tools, context, store, last, prevThrew, ingestVars, auxVars>>
    /\ UNCHANGED <<mode, adapters, concurrent, inbox, running, outbox>>

\* the adapter main() creates next: the first of its mode not yet created, once the
\* ones before it are started
NextToCreate ==
    LET plan == StartedBy(mode)
    IN {plan[i] : i \in {j \in 1..Len(plan) :
                           /\ adapters[plan[j]] = "Uninitialized"
                           /\ \A k \in 1..(j - 1) : adapters[plan[k]] # "Uninitialized"
                           /\ \A k \in 1..(j - 1) : adapters[plan[k]] # "Ready"}}

\* createRESTServer(registry, context, config) and its like
CreateServer(a) ==
    /\ phase = "boot"
    /\ Len(tools) = Len(MainTools)
    /\ a \in NextToCreate
    /\ adapters' = [adapters EXCEPT ![a] = Created(adapters[a])]
    /\ UNCHANGED <<serveVars, ingestVars, auxVars>>
    /\ UNCHANGED <<mode, connected, concurrent, inbox, running, outbox>>

\* startRESTServer / startOpenAIServer / the transport connect of startMCPServer
StartServer(a) ==
    /\ phase = "boot"
    /\ adapters[a] = "Ready"
    /\ adapters' = [adapters EXCEPT ![a] = "Serving"]
    /\ phase' = IF a = StartedBy(mode)[Len(StartedBy(mode))] THEN "serving" ELSE phase
    /\ UNCHANGED <<tools, context, store, last, prevThrew, ingestVars, auxVars>>
    /\ UNCHANGED <<mode, connected, concurrent, inbox, running, outbox>>

\* a request arrives at a serving adapter
Arrive(a, name, raw) ==
    /\ adapters[a] = "Serving"
    /\ NextId <= MaxRequests
    /\ name \in Advertised(tools, adapters[a])
    /\ inbox' = Append(inbox, Request(NextId, a, name, raw))
    /\ UNCHANGED <<serveVars, ingestVars, auxVars>>
    /\ UNCHANGED <<mode, connected, adapters, concurrent, running, outbox>>

\* whether the adapter may take the i-th waiting request now: the stdio adapter reads
\* its one connection in order, and without concurrent request IDs it finishes a
\* request before it takes the next
MayBegin(i) ==
    LET req == inbox[i]
    IN /\ adapters[req.via] = "Serving"
       /\ req.via = "mcp" =>
             /\ \A j \in 1..(i - 1) : inbox[j].via # "mcp"
             /\ concurrent \/ \A r \in running : r.via # "mcp"

\* the adapter decodes a waiting request and calls registry.invoke
BeginRequest(i) ==
    /\ i \in 1..Len(inbox)
    /\ MayBegin(i)
    /\ running' = running \cup {inbox[i]}
    /\ inbox' = SubSeq(inbox, 1, i - 1) \o SubSeq(inbox, i + 1, Len(inbox))
    /\ UNCHANGED <<serveVars, ingestVars, auxVars>>
    /\ UNCHANGED <<mode, connected, adapters, concurrent, outbox>>

\* invoke resolved: the adapter encodes the ToolResult and sends the response
Respond(req, failStatus) ==
    /\ req \in running
    /\ LET result == Dispatch(req.via, tools, req.name, req.raw, context, store)
           others == {r \in running \ {req} : r.via = req.via}
       IN outbox' = Append(outbox, [req |-> req,
                                    resp |-> Encode(req, others, result, failStatus)])
    /\ running' = running \ {req}
    /\ UNCHANGED <<serveVars, ingestVars, auxVars>>
    /\ UNCHANGED <<mode, connected, adapters, concurrent, inbox>>

\* the adapter is told to stop: it takes no further request
Shutdown(a) ==
    /\ adapters[a] = "Serving"
    /\ adapters' = [adapters EXCEPT ![a] = ShutdownState(\E r \in running : r.via = a)]
    /\ UNCHANGED <<serveVars, ingestVars, auxVars>>
    /\ UNCHANGED <<mode, connected, concurrent, inbox, running, outbox>>

\* the last running request of a draining adapter has been answered
Drained(a) ==
    /\ adapters[a] = "Draining"
    /\ \A r \in running : r.via # a
    /\ adapters' = [adapters EXCEPT ![a] = "Stopped"]
    /\ UNCHANGED <<serveVars, ingestVars, auxVars>>
    /\ UNCHANGED <<mode, connected, concurrent, inbox, running, outbox>>

NextMain ==
    \/ CheckConfig
    \/ \E ok \in BOOLEAN : Connect(ok)
    \/ MainRegister
    \/ \E a \in AdapterNames : CreateServer(a)
    \/ \E a \in AdapterNames : StartServer(a)
    \/ \E a \in AdapterNames, name \in WireTools, raw \in WireInputs : Arrive(a, name, raw)
    \/ \E i \in 1..MaxRequests : BeginRequest(i)
    \/ \E req \in running, failStatus \in FailureStatuses : Respond(req, failStatus)
    \/ \E a \in AdapterNames : Shutdown(a)
    \/ \E a \in AdapterNames : Drained(a)

SpecMain == InitMain /\ [][NextMain]_vars

----------------------------------------------------------------------------
(* Properties of the registry and the tool handlers. *)

SearchToolNames == {"search_code", "search_client_code", "search_gamedata",
                    "search_hytale_docs"}

Invoked == last.kind = "invoke" /\ last.name \in Names(last.before)

\* a raw limit that is present and is not an integer within 1..20
BadLimit(raw) == raw.t # "absent" /\ ~(raw.t = "num" /\ raw.n \in 1..20)

\* a raw input with a missing required field, a value of the wrong type, or a value
\* violating a constraint of the tool's schema
MalformedFor(name, raw) ==
    \/ ~raw.obj
    \/ /\ name \in SearchToolNames
       /\ \/ raw.query.t # "str"
          \/ raw.query.s = ""
          \/ BadLimit(raw.limit)
    \/ /\ name = "search_hytale_docs"
       /\ raw.type.t # "absent"
       /\ ~(raw.type.t = "str" /\ raw.type.s \in {"all", "guide", "reference", "faq", "example"})
    \/ /\ name = "search_gamedata"
       /\ raw.type.t # "absent"
       /\ ~(raw.type.t = "str" /\ raw.type.s \in GAME_DATA_TYPES)

\* C1: invoke on a registered tool with a malformed raw input does not throw to the
\* caller: it returns a ToolResult with success=false, and the handler is not run.
C1_MalformedInputRejected ==
    (Invoked /\ MalformedFor(last.name, last.raw)) =>
        /\ last.outcome = "return"
        /\ ~last.result.success
        /\ last.handler.kind = "none"

C1_Witness ==
    /\ Invoked
    /\ last.name = "search_hytale_docs"
    /\ last.raw.query = Str("q")
    /\ last.raw.limit = Num(21)
    /\ last.outcome = "return"
    /\ ~last.result.success

\* the limit a tolerant clamp hands to the store for a raw limit
ClampedLimit(raw) ==
    IF raw.t = "absent" THEN 5 ELSE IF raw.n < 1 THEN 1 ELSE IF raw.n > 20 THEN 20 ELSE raw.n

\* C2: every integer limit supplied to a search tool through invoke, also one below 1
\* or above 20, is accepted, and the limit handed to the store's search is the limit
\* clamped into 1..20 (5 when absent).
C2_LimitClamped ==
    (/\ Invoked
     /\ last.name \in SearchToolNames
     /\ last.raw.obj
     /\ last.raw.query = Str("q")
     /\ last.raw.type = Absent
     /\ last.raw.limit.t \in {"absent", "num"}) =>
        /\ last.handler.kind # "none"
        /\ \A i \in 1..Len(last.handler.calls) :
              last.handler.calls[i].op = "search" =>
                  last.handler.calls[i].limit = ClampedLimit(last.raw.limit)

\* C3: a tool handler never lets an exception escape: a failing embedQuery or search
\* makes the handler return a ToolResult with success=false, not throw.
C3_HandlerNeverThrows ==
    last.kind = "invoke" => last.handler.kind # "throw"

FailedCalls == {i \in 1..Len(last.handler.calls) : ~last.handler.calls[i].ok}

\* the message of the failure of a provider or store call
FailureMessage(call) == IF call.op = "embedQuery" THEN EmbedError ELSE StoreError

\* C4: when the handler throws during invoke, the registry catches it and returns
\* success=false with the thrown error's message, the message of the provider or
\* store failure behind it; the process keeps serving.
C4_ThrowingHandlerWrapped ==
    (Invoked /\ last.handler.kind = "throw") =>
        /\ last.outcome = "return"
        /\ ~last.result.success
        /\ \E i \in FailedCalls :
              last.result.error = FailureMessage(last.handler.calls[i])
        /\ phase = "serving"

\* a throwing invocation served after an earlier throwing invocation
C4_Witness ==
    /\ prevThrew
    /\ Invoked
    /\ last.handler.kind = "throw"
    /\ last.outcome = "return"
    /\ last.result = Failure(EmbedError)

\* C5: registering a definition under a name already present fails with a
\* duplicate-registration error and leaves the registry as it was: the same list, and
\* get(name) is still the first definition registered.
C5_DuplicateRegistrationFails ==
    (last.kind = "register" /\ last.name \in Names(last.before)) =>
        /\ last.outcome = "DuplicateToolError"
        /\ tools = last.before
        /\ Get(tools, last.name) = Get(last.before, last.name)

C5_Witness ==
    /\ last.kind = "register"
    /\ last.name = "search_code"
    /\ last.impl = "v2"
    /\ last.outcome = "DuplicateToolError"
    /\ Get(tools, "search_code") = Def("search_code", "v1")
    /\ Len(tools) > Len(MainTools)

----------------------------------------------------------------------------
(* Properties of the batched embedding of an ingestion run. *)

\* C6: a successful embedBatch returns one vector per text, the vector at index i being
\* the embedding of text i whatever the batch size, and the embed helper pairs chunk i
\* with its own vector.
C6_VectorsAligned ==
    /\ batch.status = "ok" =>
          /\ Len(batch.vectors) = Len(chunks)
          /\ \A i \in 1..Len(chunks) : batch.vectors[i] = Embed(chunks[i].text)
    /\ ipc \in {"store", "done"} =>
          /\ Len(embedded) = Len(chunks)
          /\ \A i \in 1..Len(chunks) :
                /\ embedded[i].id = chunks[i].id
                /\ embedded[i].vector = Embed(chunks[i].text)

\* three chunks embedded in two batches, the first and last text differing
C6_Witness ==
    /\ ipc = "store"
    /\ Len(chunks) = 3
    /\ batchSize = 2
    /\ batch.completed = 2
    /\ chunks[1].text # chunks[3].text
    /\ embedded[3].vector = Embed(chunks[3].text)

\* C7: onProgress is called after each completed batch with the cumulative number of
\* texts processed; the values never decrease, never exceed the total, and on success
\* the total is reported exactly once, by the last call.
C7_ProgressMonotone ==
    /\ \A k \in 1..Len(progress) :
          /\ progress[k] <= Len(chunks)
          /\ k > 1 => progress[k - 1] <= progress[k]
    /\ Len(progress) > 0 => progress[Len(progress)] = batch.sent
    /\ Len(progress) = batch.completed - (IF batch.status = "failed" THEN 1 ELSE 0)
    /\ batch.status = "ok" =>
          /\ Len(progress) > 0
          /\ progress[Len(progress)] = Len(chunks)
          /\ Cardinality({k \in 1..Len(progress) : progress[k] = Len(chunks)}) = 1

C7_Witness ==
    /\ batch.status = "ok"
    /\ batchSize = 2
    /\ progress = <<2, 3>>

C8_FailedState ==
    batch.status = "failed" =>
        /\ batch.vectors = << >>
        /\ embedded = << >>
        /\ batch.calls = batch.completed
        /\ batch.inflight = 0
        /\ ipc \in {"embed", "exit1"}

\* C8: a failing provider call fails the whole embedBatch: no vectors are returned, not
\* even those of the batches that had succeeded, the caller gets no embedded chunks, and
\* no further batch is attempted.
C8_BatchFailureIsTotal ==
    /\ []C8_FailedState
    /\ [][batch.status = "failed" => batch' = batch]_vars

\* the second batch failed after the first had succeeded, and main() has exited
C8_Witness ==
    /\ batch.status = "failed"
    /\ batch.completed = 2
    /\ progress = <<1>>
    /\ batch.vectors = << >>
    /\ ipc = "exit1"

\* C9: the provider calls of one embedBatch are sequential: at most one is in flight, and
\* a call after the first starts no sooner than rateLimitMs after the previous call
\* completed, however long that call took.
C9_SequentialRateLimited ==
    /\ batch.inflight <= 1
    /\ batch.calls - batch.completed = batch.inflight
    /\ (batch.status = "calling" /\ batch.calls >= 2) =>
          batch.startAt >= batch.doneAt + rateLimitMs

\* the second call starts exactly rateLimitMs after a slow first call completed
C9_Witness ==
    /\ batch.status = "calling"
    /\ batch.calls = 2
    /\ batch.doneAt = SlowMs
    /\ batch.startAt = SlowMs + rateLimitMs

----------------------------------------------------------------------------
(* Properties of a search on a populated table. *)

Searched ==
    /\ last.kind = "invoke"
    /\ last.name = "search_hytale_docs"
    /\ last.result.success

Hits == last.result.data

\* the distance of the row a hit was made from
DistanceOfHit(hit) ==
    LET rows == store[DocsTable].rows
    IN rows[CHOOSE i \in 1..Len(rows) : rows[i].id = hit.id].distance

\* the limit asked for (5 when absent)
AskedLimit == IF last.raw.limit.t = "absent" THEN 5 ELSE last.raw.limit.n

C10_Ordered ==
    Searched =>
        /\ Len(Hits) <= AskedLimit
        /\ \A k \in 1..Len(Hits) :
              /\ k > 1 => Hits[k - 1].score >= Hits[k].score
              /\ Hits[k].score = One - DistanceOfHit(Hits[k])

\* C10 as stated: at most L hits, by non-increasing score = 1 - distance, and every hit
\* with a non-negative distance has a score within [0,1].
C10_ScoreInUnitRange ==
    /\ C10_Ordered
    /\ Searched =>
          \A k \in 1..Len(Hits) :
              DistanceOfHit(Hits[k]) >= 0 => (Hits[k].score >= 0 /\ Hits[k].score <= One)

\* C10 amended: at most L hits, by non-increasing score = 1 - distance; a non-negative
\* distance gives a score of at most 1, and the score is within [0,1] exactly when the
\* distance is within [0,1].
C10_ScoreAtMostOne ==
    /\ C10_Ordered
    /\ Searched =>
          \A k \in 1..Len(Hits) :
              /\ DistanceOfHit(Hits[k]) >= 0 => Hits[k].score <= One
              /\ (Hits[k].score >= 0 /\ Hits[k].score <= One)
                    <=> (DistanceOfHit(Hits[k]) >= 0 /\ DistanceOfHit(Hits[k]) <= One)

\* a search with limit 2 on three rows returns the two nearest, one of them beyond 1.0
C10_Witness ==
    /\ Searched
    /\ Len(store[DocsTable].rows) = 3
    /\ last.raw.limit = Num(2)
    /\ Len(Hits) = 2
    /\ Hits[1].score = One - 4
    /\ Hits[2].score = One - MaxDistance

\* a message that tells the user which ingestion command to run
NamesIngestCommand(msg) == msg \in {DocsIngestMessage, StatsIngestMessage}

\* a valid call of a stats tool whose table does not exist
MissingTableCall ==
    /\ Invoked
    /\ last.name \in StatsToolNames
    /\ last.raw.obj
    /\ ~store[StatsTableOf(last.name)].exists

CallsOf(run) == {run.calls[i].op : i \in 1..Len(run.calls)}

DocsStatsCall ==
    /\ Invoked
    /\ last.name = "hytale_docs_stats"
    /\ last.raw.obj
    /\ context.configError = NoError
    /\ \A i \in 1..Len(last.handler.calls) : last.handler.calls[i].ok

\* C12: the documentation stats tool returns success=false on a docs table that is
\* missing or empty, and on a table holding exactly one record of type "guide" and
\* category "plugin" it returns success=true with totalDocs=1, byType={guide:1} and
\* byCategory={plugin:1}.
C12_EmptyFailsSeededCounts ==
    DocsStatsCall =>
        /\ (~store[DocsTable].exists \/ store[DocsTable].rows = << >>) => ~last.result.success
        /\ (store[DocsTable].exists /\ store[DocsTable].rows = <<Row(1, "guide", "plugin", 0)>>) =>
              /\ last.result.success
              /\ last.result.data = <<[totalDocs |-> 1, byCategory |-> {<<"plugin", 1>>},
                                       byType |-> {<<"guide", 1>>}]>>

\* C15: whenever the ToolContext carries a config error, or no embedding provider, a
\* search tool handler returns success=false carrying the config error (or the missing
\* provider message) and makes no provider or store call in that invocation.
C15_ConfigErrorBeforeWork ==
    (/\ Invoked
     /\ last.name \in SearchToolNames
     /\ last.handler.kind # "none"
     /\ (context.configError # NoError \/ ~context.embedding)) =>
        /\ last.handler.kind = "return"
        /\ ~last.result.success
        /\ last.result.error = (IF context.configError # NoError THEN context.configError
                                ELSE "Embedding provider not configured")
        /\ last.handler.calls = << >>

C15_Witness ==
    /\ Invoked
    /\ last.name = "search_hytale_docs"
    /\ last.handler.kind = "return"
    /\ context.configError = MissingKeyError
    /\ last.result = Failure(MissingKeyError)
    /\ last.handler.calls = << >>

----------------------------------------------------------------------------
(* Properties of main() and the protocol adapters. *)

\* the ToolResult registry.invoke gives for a request
RegistryResult(req) ==
    InvokeResult(tools, req.name, req.raw, context, store, TRUE, TRUE).result

SameRequest(r1, r2) == r1.name = r2.name /\ r1.raw = r2.raw

ExitedBeforeStart ==
    /\ phase \in {"config", "exit1"}
    /\ ~connected
    /\ tools = << >>
    /\ adapters = NotStarted
    /\ inbox = << >> /\ running = {} /\ outbox = << >>

\* with a config error in mode mcp, the stdio adapter is started and every response
\* is a failure carrying the config error (or, for a malformed input, its rejection)
DeferredToRequests ==
    /\ phase = "serving" => adapters["mcp"] # "Uninitialized"
    /\ \A i \in 1..Len(outbox) :
          /\ ~Decode(outbox[i].resp).success
          /\ \/ outbox[i].resp.error = context.configError
             \/ MalformedFor(outbox[i].req.name, outbox[i].req.raw)

ToolSurface ==
    {"search_code", "search_client_code", "search_gamedata", "code_stats",
     "client_code_stats", "gamedata_stats", "search_docs", "docs_stats"}

\* C16: once main() has started its adapters the registry lists exactly the eight tools
\* of the tool surface, each once, and every started adapter advertises exactly that set.
C16_EightToolsListed ==
    phase = "serving" =>
        /\ Len(tools) = 8
        /\ Names(tools) = ToolSurface
        /\ \A a \in AdapterNames :
              adapters[a] # "Uninitialized" => Advertised(tools, adapters[a]) = ToolSurface

LifecycleMoves ==
    {<<"Uninitialized", "Ready">>, <<"Ready", "Serving">>, <<"Serving", "Draining">>,
     <<"Serving", "Stopped">>, <<"Draining", "Stopped">>}

\* C17: an adapter changes state only along Uninitialized -> Ready -> Serving ->
\* (Draining) -> Stopped, so it never skips Ready and never goes back; a request is
\* handed to registry.invoke only by a Serving adapter, and a request still running
\* belongs to a Serving or Draining adapter.
C17_AdapterLifecycle ==
    /\ [][\A a \in AdapterNames :
             adapters'[a] # adapters[a] => <<adapters[a], adapters'[a]>> \in LifecycleMoves]_vars
    /\ [][\A r \in running' \ running : adapters[r.via] = "Serving"]_vars
    /\ [](\A r \in running : adapters[r.via] \in {"Serving", "Draining"})

C17_Witness ==
    /\ mode = "all"
    /\ adapters["rest"] = "Draining"
    /\ adapters["openai"] = "Stopped"
    /\ adapters["mcp"] = "Uninitialized"
    /\ \E r \in running : r.via = "rest"
    /\ \E i \in 1..Len(outbox) : outbox[i].req.via = "openai"

StdioResponses == {i \in 1..Len(outbox) : outbox[i].req.via = "mcp"}

RestResponses == {i \in 1..Len(outbox) : outbox[i].req.via = "rest"}

\* C19: on the REST adapter a success=true ToolResult is answered with status 200 and
\* the data, a success=false ToolResult with a 4xx/5xx status and the error, never with
\* 200; each response is the one of its own request whatever other requests are
\* waiting, running or answered.
C19_RestStatusMapping ==
    \A i \in RestResponses :
        LET result == RegistryResult(outbox[i].req)
            resp == outbox[i].resp
        IN /\ resp.id = outbox[i].req.id
           /\ result.success => (resp.status = 200 /\ resp.data = result.data)
           /\ ~result.success =>
                 (resp.status >= 400 /\ resp.status <= 599 /\ resp.error = result.error)

C19_Witness ==
    /\ Len(outbox) = 2
    /\ outbox[1].req.via = "rest" /\ outbox[2].req.via = "rest"
    /\ outbox[1].req.id = 2
    /\ outbox[1].resp.status = 200 /\ outbox[1].resp.data # << >>
    /\ outbox[2].resp.status = 400 /\ outbox[2].resp.error # ""

\* C20: in server mode "all", once main() has started its servers, the stdio, the REST
\* and the OpenAI-compatible adapter have all been started.
C20_AllModeStartsThree ==
    (mode = "all" /\ phase = "serving") =>
        \A a \in AdapterNames : adapters[a] # "Uninitialized"

\* C21: no tool is registered and no adapter is created or serving unless
\* vectorStore.connect() has succeeded; a failed connect() ends main() with exit code 1,
\* with no tool registered and no adapter started, and nothing happens after the exit.
C21_ConnectBeforeServing ==
    /\ []((tools # << >> \/ adapters # NotStarted \/ phase \in {"boot", "serving"})
             => connected)
    /\ [](phase = "exit1" => (~connected /\ tools = << >> /\ adapters = NotStarted))
    /\ [][(phase = "connect" /\ ~connected') => phase' = "exit1"]_vars
    /\ [][phase # "exit1"]_vars

C21_Witness ==
    /\ phase = "exit1"
    /\ context.configError = NoError
    /\ mode = "rest"
    /\ ~connected
    /\ tools = << >>
    /\ adapters = NotStarted

----------------------------------------------------------------------------
(* Full-table scans: the paged loop of getStats and the pages queryAll yields. *)

\* the most rows of a scanned table and the largest page size tried besides getStats' own
MaxScanRows == 5
MaxPageSize == 3

\* const batchSize = 5000
StatsBatchSize == 5000

PageSizes == (1..MaxPageSize) \cup {StatsBatchSize}

\* table.query().limit(batchSize).offset(offset).toArray(): rows are row numbers
Page(rows, pageSize, offset) == SubSeq(rows, offset + 1, Min(offset + pageSize, Len(rows)))

NextOffsetStuck(offset, batchLength) == offset

\* offset += batch.length
NextOffset(offset, batchLength) == offset + batchLength

InitScan ==
    /\ ServeIdle
    /\ IngestIdle
    /\ WireIdle
    /\ dbop = NoDbOp
    /\ \E kind \in {"getStats", "queryAll"}, n \in 0..MaxScanRows, size \in PageSizes :
          scan = [NoScan EXCEPT !.kind = kind, !.rows = n, !.pageSize = size]

\* one turn of the loop: fetch the page at offset; an empty page ends the scan, any other
\* page is visited and the scan ends if it is shorter than the page size
FetchPage ==
    /\ ~scan.done
    /\ Len(scan.pages) <= MaxScanRows + 1
    /\ LET page == Page([i \in 1..scan.rows |-> i], scan.pageSize, scan.offset)
       IN scan' = IF Len(page) = 0
                  THEN [scan EXCEPT !.done = TRUE, !.pages = Append(@, 0)]
                  ELSE [scan EXCEPT !.visited = @ \o page,
                                    !.offset = NextOffset(@, Len(page)),
                                    !.pages = Append(@, Len(page)),
                                    !.done = Len(page) < scan.pageSize]
    /\ UNCHANGED <<serveVars, ingestVars, wireVars, dbop>>

NextScan == FetchPage

SpecScan == InitScan /\ [][NextScan]_vars /\ WF_vars(NextScan)

\* every page fetched so far is within the page size, every page but the last is full,
\* and the rows visited are the first rows of the table, each once, in table order
ScanSafe ==
    /\ \A i \in 1..Len(scan.pages) : scan.pages[i] <= scan.pageSize
    /\ \A i \in 1..(Len(scan.pages) - 1) : scan.pages[i] = scan.pageSize
    /\ scan.visited = [i \in 1..Len(scan.visited) |-> i]
    /\ Len(scan.visited) <= scan.rows
    /\ ~scan.done => \A i \in 1..Len(scan.pages) : scan.pages[i] = scan.pageSize
    /\ scan.done =>
          /\ Len(scan.visited) = scan.rows
          /\ scan.pages # << >>
          /\ scan.pages[Len(scan.pages)] < scan.pageSize

\* C22: a full-table scan of a finite table ends; it stops at the first page that is
\* empty or shorter than the page size, no page exceeds the page size, and when it stops
\* every row of the table has been visited exactly once.
C22_ScanTerminates == []ScanSafe /\ <>scan.done

C22_Witness ==
    /\ scan.done
    /\ scan.kind = "getStats"
    /\ scan.rows = 4
    /\ scan.pageSize = 2
    /\ scan.pages = <<2, 2, 0>>
    /\ scan.visited = <<1, 2, 3, 4>>

----------------------------------------------------------------------------
(* Properties of filtered search. *)

\* the filter a documentation search is to run with: the type asked for, unless it is
\* "all" or absent
AskedFilter ==
    IF last.raw.type.t = "absent" \/ last.raw.type.s = "all" THEN NoFilter ELSE last.raw.type.s

\* the rows of the documentation table that satisfy the filter asked for
MatchingRows ==
    {i \in 1..Len(store[DocsTable].rows) :
        AskedFilter = NoFilter \/ store[DocsTable].rows[i].type = AskedFilter}

\* C23: a documentation search hands the store the filter {type: t} when the input type
\* t is not "all", and no filter when it is "all" or absent; every hit satisfies the
\* filter, and the hits number the limit whenever at least that many rows match (all
\* matching rows otherwise): the filter does not cut the result below the limit.
C23_FilterWithinSearch ==
    Searched =>
        /\ last.handler.calls[2].op = "search"
        /\ last.handler.calls[2].filter = AskedFilter
        /\ \A k \in 1..Len(Hits) :
              /\ AskedFilter # NoFilter => Hits[k].type = AskedFilter
              /\ \E i \in MatchingRows : store[DocsTable].rows[i].id = Hits[k].id
        /\ Len(Hits) = (IF Cardinality(MatchingRows) >= AskedLimit
                        THEN AskedLimit ELSE Cardinality(MatchingRows))

\* the nearest row is a reference; a search for two guides still returns two hits
C23_Witness ==
    /\ Searched
    /\ last.raw.type = Str("guide")
    /\ last.raw.limit = Num(2)
    /\ Len(store[DocsTable].rows) = 3
    /\ store[DocsTable].rows[1].type = "reference"
    /\ store[DocsTable].rows[1].distance = 0
    /\ store[DocsTable].rows[2].distance = 4
    /\ store[DocsTable].rows[3].distance = One
    /\ Len(Hits) = 2
    /\ Hits[1].id = 2 /\ Hits[2].id = 3

----------------------------------------------------------------------------
(* Properties of the ingestion run's steps and of the table it replaces. *)

IngestMoves ==
    {<<"start", "parse">>, <<"start", "exit1">>, <<"parse", "embed">>, <<"parse", "exit1">>,
     <<"embed", "store">>, <<"embed", "exit1">>, <<"store", "done">>, <<"store", "exit1">>}

\* C24: the ingestion run goes through parse, embed and store in that order; the stored
\* table changes only in the store step, which is reached only with at least one chunk
\* and a vector for every chunk; a parse without chunks or a failed embedding ends the
\* run with exit code 1 and leaves the table as it was.
C24_StoreOnlyAfterEmbed ==
    /\ [][ipc' # ipc => <<ipc, ipc'>> \in IngestMoves]_vars
    /\ [][uiTable' # uiTable =>
             /\ ipc = "store"
             /\ Len(chunks) >= 1
             /\ batch.status = "ok"
             /\ Len(embedded) = Len(chunks)]_vars
    /\ [][(ipc = "parse" /\ chunks' = << >>) => (ipc' = "exit1" /\ uiTable' = uiTable)]_vars
    /\ [][(ipc = "embed" /\ batch.status = "failed" /\ ipc' # ipc) =>
             (ipc' = "exit1" /\ uiTable' = uiTable)]_vars
    /\ []((ipc = "exit1" /\ (chunks = << >> \/ batch.status = "failed")) =>
             uiTable \in {NoTable, TableOf(OldUIRows)})

C24_Witness ==
    /\ ipc = "exit1"
    /\ Len(chunks) = 3
    /\ batch.status = "failed"
    /\ batch.calls = 2
    /\ uiTable = TableOf(OldUIRows)

----------------------------------------------------------------------------
(* Creating tables: createTable, createGameDataTable, createClientUITable. *)

\* the most chunks handed to one create-table call
MaxTableChunks == 2

\* the table each of the three functions writes by default
CreatedTables == {"hytale_methods", "hytale_gamedata", "hytale_client_ui"}

\* embedded chunks: n chunks with ids ascending or descending; the distance stands for
\* the chunk's vector
TableChunks ==
    UNION {{[i \in 1..n |-> Row(i, "guide", "", i)],
            [i \in 1..n |-> Row(n + 1 - i, "reference", "", i)]} : n \in 0..MaxTableChunks}

\* const data = chunks.map((chunk) => ({ id: chunk.id, ..., vector: chunk.vector }))
DataOf(cs) ==
    [i \in 1..Len(cs) |-> Row(cs[i].id, cs[i].type, cs[i].category, cs[i].distance)]

CreateTableAppending(db, name, cs, dropOk, createOk) ==
    [db |-> IF createOk
            THEN [db EXCEPT ![name] = TableOf(db[name].rows \o DataOf(cs))]
            ELSE db,
     ok |-> createOk]

\* try { dropTable } catch {}; createTable(tableName, data): the drop's failure is
\* swallowed, and the create fails on a table that is still there
CreateTableResult(db, name, cs, dropOk, createOk) ==
    LET afterDrop == IF db[name].exists /\ dropOk THEN [db EXCEPT ![name] = NoTable] ELSE db
        created == ~afterDrop[name].exists /\ createOk
    IN [db |-> IF created THEN [afterDrop EXCEPT ![name] = TableOf(DataOf(cs))]
               ELSE afterDrop,
        ok |-> created]

InitTables ==
    /\ phase = "boot"
    /\ tools = << >>
    /\ context = BuildContext(FALSE, "voyage", "pa-key")
    /\ store \in {[t \in TableNames |-> tbl] : tbl \in {NoTable, TableOf(SeededRows)}}
    /\ last = NoCall
    /\ prevThrew = FALSE
    /\ IngestIdle
    /\ WireIdle
    /\ AuxIdle

\* an ingest script calls one of the three functions
CreateTableCall(name, cs, dropOk, createOk) ==
    /\ LET r == CreateTableResult(store, name, cs, dropOk, createOk)
       IN /\ store' = r.db
          /\ dbop' = [name |-> name, chunks |-> cs, ok |-> r.ok]
    /\ UNCHANGED <<phase, tools, context, last, prevThrew, ingestVars, wireVars, scan>>

NextTables ==
    \E name \in CreatedTables, cs \in TableChunks, dropOk \in BOOLEAN, createOk \in BOOLEAN :
        CreateTableCall(name, cs, dropOk, createOk)

SpecTables == InitTables /\ [][NextTables]_vars

\* the table a successful call leaves: one row per chunk, same ids, same order
RowsFor(cs) == [i \in 1..Len(cs) |-> [id |-> cs[i].id, type |-> cs[i].type,
                                        category |-> cs[i].category,
                                        distance |-> cs[i].distance]]

\* C25: after a successful create-table call the named table holds exactly one row per
\* given chunk, with the same ids in the same order, whatever it held before and whether
\* or not it existed; no call changes another table; and a second successful call with
\* the same chunks leaves the store as the first one left it.
C25_CreateReplaces ==
    /\ [](dbop.ok =>
             /\ store[dbop.name].exists
             /\ store[dbop.name].rows = RowsFor(dbop.chunks)
             /\ Len(store[dbop.name].rows) = Len(dbop.chunks))
    /\ [][\A t \in TableNames : store'[t] # store[t] => (dbop' # NoDbOp /\ t = dbop'.name)]_vars
    /\ [](\A name \in CreatedTables, cs \in TableChunks :
             LET once == CreateTableResult(store, name, cs, TRUE, TRUE)
                 twice == CreateTableResult(once.db, name, cs, TRUE, TRUE)
             IN once.ok /\ twice.ok /\ twice.db = once.db)

C25_Witness ==
    /\ dbop.ok
    /\ dbop.name = "hytale_client_ui"
    /\ Len(dbop.chunks) = 2
    /\ store["hytale_client_ui"].rows = RowsFor(dbop.chunks)
    /\ store["hytale_methods"] = TableOf(SeededRows)
    /\ store["hytale_gamedata"] = NoTable

----------------------------------------------------------------------------
(* Properties of the documentation statistics' counts. *)

RECURSIVE SumCounts(_)
\* the sum of the counts of a set of <<key, count>> pairs
SumCounts(pairs) ==
    IF pairs = {} THEN 0
    ELSE LET p == CHOOSE q \in pairs : TRUE IN p[2] + SumCounts(pairs \ {p})

\* the number of rows of the documentation table that count under a type or category
RowsOfType(k) ==
    Cardinality({i \in 1..Len(store[DocsTable].rows) :
        (IF store[DocsTable].rows[i].type = "" THEN "unknown"
         ELSE store[DocsTable].rows[i].type) = k})
RowsOfCategory(k) ==
    Cardinality({i \in 1..Len(store[DocsTable].rows) :
        (IF store[DocsTable].rows[i].category = "" THEN "Other"
         ELSE store[DocsTable].rows[i].category) = k})

\* C26: in a successful documentation stats result every row is counted once under its
\* type ("unknown" for an empty type) and once under its category ("Other" for an empty
\* category): each key appears once with the number of its rows, and the byType counts
\* and the byCategory counts each add up to the number of rows scanned, which is totalDocs.
C26_EveryRowCountedOnce ==
    (DocsStatsCall /\ last.result.success) =>
        LET stats == last.result.data[1]
        IN /\ \A p \in stats.byType : p[2] = RowsOfType(p[1]) /\ p[2] >= 1
           /\ \A p \in stats.byCategory : p[2] = RowsOfCategory(p[1]) /\ p[2] >= 1
           /\ \A p, q \in stats.byType : p[1] = q[1] => p = q
           /\ \A p, q \in stats.byCategory : p[1] = q[1] => p = q
           /\ SumCounts(stats.byType) = Len(store[DocsTable].rows)
           /\ SumCounts(stats.byCategory) = Len(store[DocsTable].rows)
           /\ stats.totalDocs = Len(store[DocsTable].rows)

C26_Witness ==
    /\ DocsStatsCall
    /\ last.result.success
    /\ Len(store[DocsTable].rows) = 2
    /\ last.result.data[1].totalDocs = 2
    /\ last.result.data[1].byType = {<<"guide", 1>>, <<"unknown", 1>>}
    /\ last.result.data[1].byCategory = {<<"Other", 2>>}

----------------------------------------------------------------------------
(* Properties of the ToolContext. *)

\* the config error by the stated precedence: .env misconfiguration, then missing API
\* key, then invalid key format
ErrorByPrecedence(envFileError, provider, apiKey) ==
    IF envFileError THEN ".env file misconfigured"
    ELSE IF apiKey = "" THEN "API key not configured"
    ELSE IF (provider = "voyage" /\ apiKey # "pa-key") \/ (provider = "openai" /\ apiKey # "sk-key")
    THEN "Invalid API key format"
    ELSE ""

\* C27: the ToolContext main() builds has an embedding provider exactly when it has no
\* config error; the config error is the first that applies of .env misconfiguration,
\* missing API key, invalid key format; and the context never changes afterwards.
C27_ContextWellFormed ==
    /\ [](context.embedding <=> context.configError = NoError)
    /\ [](\E e \in BOOLEAN, p \in Providers, k \in ApiKeys :
             /\ context.configError = ErrorByPrecedence(e, p, k)
             /\ context.embedding = (ErrorByPrecedence(e, p, k) = ""))
    /\ [](\A e \in BOOLEAN, p \in Providers, k \in ApiKeys :
             BuildContext(e, p, k).configError = ErrorByPrecedence(e, p, k))
    /\ [][context' = context]_vars

C27_Witness ==
    /\ phase = "serving"
    /\ mode = "mcp"
    /\ adapters["mcp"] = "Serving"
    /\ context.configError = EnvFileError
    /\ ~context.embedding
    /\ Len(outbox) = 1
    /\ outbox[1].resp.error = EnvFileError

====
